---- MODULE Spec2Model ----
(***************************************************************************)
(* FileUploader (bots/controller/streaming/file_uploader.py).              *)
(*                                                                         *)
(* One caller thread (thread 0) calls upload_file, wait_for_upload and     *)
(* delete_file.  Every upload_file call creates one threading.Thread       *)
(* running _upload_worker; threads are numbered 1, 2, ... in creation      *)
(* order.  A completion callback runs on its worker thread; it may return, *)
(* raise, or call wait_for_upload on the same uploader.                    *)
(***************************************************************************)
EXTENDS Naturals, Sequences, FiniteSets

\* number of upload_file calls explored
MaxUploads == 2

\* local file paths handed to upload_file / delete_file
Paths == {"a"}

\* destinations an uploader is constructed with
Buckets == {"b"}
Keys == {"k"}

\* ExpiresIn of the presigned URL, in seconds
ExpiresIn == 3600

\* thread ids: the caller thread is 0, the worker threads are 1, 2, ...
Workers == 1..MaxUploads
Threads == 0..MaxUploads
IsCaller(t) == t = 0

VARIABLES
    fs,             \* the local filesystem: the set of paths that exist
    upload_thread,  \* self._upload_thread: 0 is None, else a thread id
    nthreads,       \* number of Thread objects created so far
    ncalls,         \* number of upload_file calls that have returned
    mpc,            \* caller thread: "idle", or "starting" inside upload_file
    th,             \* per worker thread: position and what it has done
    ws,             \* per thread: the wait_for_upload call it is inside
    dlast,          \* how the last delete_file call ended
    bucket,         \* self.bucket
    key             \* self.key

vars == <<fs, upload_thread, nthreads, ncalls, mpc, th, ws, dlast,
          bucket, key>>

\* a Thread object that does not exist yet
NoThread ==
    [pc |-> "none", path |-> "a", cb |-> FALSE, existed |-> FALSE,
     presign |-> "none", open |-> "none", put |-> "none", calls |-> <<>>,
     req |-> <<>>]

\* a thread that is not inside wait_for_upload.  Inside it, st is "checked"
\* after line 77 and "joining" inside join(); h is the thread line 77 found
\* alive and tgt the thread being joined
NoWait == [st |-> "none", h |-> 0, tgt |-> 0]

\* Thread(target=self._upload_worker, args=(file_path, callback), daemon=True)
Thread(file_path, callback) ==
    [NoThread EXCEPT !.pc = "new", !.path = file_path, !.cb = callback,
                     !.existed = (file_path \in fs)]

\* Thread.is_alive(): started and not yet finished
is_alive(t) == th[t].pc \notin {"none", "new", "done", "crashed"}

\* the thread's run() has ended, normally or by an uncaught exception
Terminated(t) == th[t].pc \in {"done", "crashed"}

\* Path.exists()
exists(file_path) == file_path \in fs

Init ==
    /\ fs \in SUBSET Paths
    /\ upload_thread = 0
    /\ nthreads = 0
    /\ ncalls = 0
    /\ mpc = "idle"
    /\ th = [t \in Workers |-> NoThread]
    /\ ws = [t \in Threads |-> NoWait]
    /\ dlast = "none"
    /\ bucket \in Buckets
    /\ key \in Keys

\* the caller thread is between two calls on the uploader
MainIdle == mpc = "idle" /\ ws[0].st = "none"

----------------------------------------------------------------------------
\* upload_file that gives up the worker of the previous call when it
\* replaces the handle
upload_file_assign_cancelling(file_path, callback) ==
    /\ MainIdle
    /\ nthreads < MaxUploads
    /\ nthreads' = nthreads + 1
    /\ th' = [t \in Workers |->
                IF t = nthreads + 1 THEN Thread(file_path, callback)
                ELSE IF is_alive(t) THEN [th[t] EXCEPT !.pc = "done"]
                ELSE th[t]]
    /\ upload_thread' = nthreads + 1
    /\ mpc' = "starting"
    /\ UNCHANGED <<fs, ncalls, ws, dlast, bucket, key>>

\* upload_file, line 38: self._upload_thread = threading.Thread(...)
upload_file_assign(file_path, callback) ==
    /\ MainIdle
    /\ nthreads < MaxUploads
    /\ nthreads' = nthreads + 1
    /\ th' = [th EXCEPT ![nthreads + 1] = Thread(file_path, callback)]
    /\ upload_thread' = nthreads + 1
    /\ mpc' = "starting"
    /\ UNCHANGED <<fs, ncalls, ws, dlast, bucket, key>>

\* upload_file that starts the new worker only once no other worker runs
upload_file_start_serial ==
    /\ mpc = "starting"
    /\ \A t \in Workers : ~is_alive(t)
    /\ th' = [th EXCEPT ![upload_thread].pc = "check"]
    /\ mpc' = "idle"
    /\ ncalls' = ncalls + 1
    /\ UNCHANGED <<fs, upload_thread, nthreads, ws, dlast, bucket, key>>

\* upload_file, line 39: self._upload_thread.start(), then return
upload_file_start ==
    /\ mpc = "starting"
    /\ th' = [th EXCEPT ![upload_thread].pc = "check"]
    /\ mpc' = "idle"
    /\ ncalls' = ncalls + 1
    /\ UNCHANGED <<fs, upload_thread, nthreads, ws, dlast, bucket, key>>

----------------------------------------------------------------------------
\* _upload_worker, lines 70-73: log the error, then callback(False) if given
Except(r) ==
    IF r.cb THEN [r EXCEPT !.pc = "cbF", !.calls = Append(@, FALSE)]
            ELSE [r EXCEPT !.pc = "done"]

\* _upload_worker, lines 65-68: log success, then callback(True) if given
Success(r) ==
    IF r.cb THEN [r EXCEPT !.pc = "cbT", !.calls = Append(@, TRUE)]
            ELSE [r EXCEPT !.pc = "done"]

\* raise_for_status that accepts every response
raise_for_status_never(response) == FALSE

\* response.raise_for_status(): TRUE when it raises HTTPError
raise_for_status(response) == response # "ok"

\* the worker's own record changes to r; it is in no wait_for_upload call
Step(w, r) ==
    /\ th' = [th EXCEPT ![w] = r]
    /\ ws' = [ws EXCEPT ![w] = NoWait]
    /\ UNCHANGED <<fs, upload_thread, nthreads, ncalls, mpc, dlast, bucket, key>>

\* _upload_worker without the existence check of lines 50-51
worker_exists_unchecked(w) ==
    /\ th[w].pc = "check"
    /\ Step(w, [th[w] EXCEPT !.pc = "presign"])

\* _upload_worker, lines 49-51: raise FileNotFoundError unless the file exists
worker_exists(w) ==
    /\ th[w].pc = "check"
    /\ IF exists(th[w].path)
       THEN Step(w, [th[w] EXCEPT !.pc = "presign"])
       ELSE Step(w, Except(th[w]))

\* the arguments of generate_presigned_url, lines 55-57
presign_request ==
    <<"put_object", [Bucket |-> bucket, Key |-> key], ExpiresIn>>

\* _upload_worker going on to the PUT whatever generate_presigned_url did
worker_presign_ignored(w) ==
    /\ th[w].pc = "presign"
    /\ \E res \in {"ok", "fail"} :
         Step(w, [th[w] EXCEPT !.presign = res, !.req = presign_request,
                               !.pc = "open"])

\* _upload_worker asking for an endpoint named after the local file
worker_presign_by_path(w) ==
    /\ th[w].pc = "presign"
    /\ \E res \in {"ok", "fail"} :
         LET r == [th[w] EXCEPT !.presign = res,
                     !.req = <<"put_object",
                               [Bucket |-> bucket, Key |-> th[w].path],
                               ExpiresIn>>]
         IN  IF res = "ok" THEN Step(w, [r EXCEPT !.pc = "open"])
                           ELSE Step(w, Except(r))

\* _upload_worker, lines 54-58: s3_client.generate_presigned_url(...)
worker_presign(w) ==
    /\ th[w].pc = "presign"
    /\ \E res \in {"ok", "fail"} :
         LET r == [th[w] EXCEPT !.presign = res, !.req = presign_request]
         IN  IF res = "ok" THEN Step(w, [r EXCEPT !.pc = "open"])
                           ELSE Step(w, Except(r))

\* _upload_worker, line 61: open(str(file_path), 'rb')
worker_open(w) ==
    /\ th[w].pc = "open"
    /\ IF exists(th[w].path)
       THEN Step(w, [th[w] EXCEPT !.open = "ok", !.pc = "put"])
       ELSE Step(w, Except([th[w] EXCEPT !.open = "fail"]))

\* _upload_worker, lines 62-68: requests.put, raise_for_status, then the
\* success branch
worker_put(w) ==
    /\ th[w].pc = "put"
    /\ \E response \in {"ok", "bad_status", "raise"} :
         IF response = "raise" \/ raise_for_status(response)
         THEN Step(w, Except([th[w] EXCEPT !.put = response]))
         ELSE Step(w, Success([th[w] EXCEPT !.put = response]))

\* the thread is running the body of its callback, outside wait_for_upload
InCallback(w) == th[w].pc \in {"cbT", "cbF"} /\ ws[w].st = "none"

\* the callback has returned normally; _upload_worker then returns
Returned(r) == [r EXCEPT !.pc = "done"]

\* the callback has raised: callback(True) is inside the try block (line 68),
\* so the handler runs; callback(False) is in the handler (line 73), so the
\* exception leaves _upload_worker
Raised(r) ==
    IF r.pc = "cbT" THEN Except(r) ELSE [r EXCEPT !.pc = "crashed"]

\* a callback that returns
callback_return(w) ==
    /\ InCallback(w)
    /\ Step(w, Returned(th[w]))

\* a callback that raises
callback_raise(w) ==
    /\ InCallback(w)
    /\ Step(w, Raised(th[w]))

----------------------------------------------------------------------------
\* a thread may enter wait_for_upload: the caller between two calls, a worker
\* from inside its callback
CanWait(t) == IF IsCaller(t) THEN MainIdle ELSE InCallback(t)

\* wait_for_upload has ended on thread t, normally or (error) with the
\* RuntimeError of join; a callback that called it ends the same way
WaitEnds(t, error) ==
    /\ ws' = [ws EXCEPT ![t] = NoWait]
    /\ th' = IF IsCaller(t) THEN th
             ELSE [th EXCEPT ![t] = IF error THEN Raised(@) ELSE Returned(@)]
    /\ UNCHANGED <<fs, upload_thread, nthreads, ncalls, mpc, dlast, bucket, key>>

\* wait_for_upload, line 77: self._upload_thread and ....is_alive()
wait_for_upload_check(t) ==
    /\ CanWait(t)
    /\ IF upload_thread # 0 /\ is_alive(upload_thread)
       THEN /\ ws' = [ws EXCEPT ![t] = [st |-> "checked", h |-> upload_thread,
                                        tgt |-> 0]]
            /\ UNCHANGED <<fs, upload_thread, nthreads, ncalls, mpc, th, dlast,
                           bucket, key>>
       ELSE WaitEnds(t, FALSE)

\* a wait_for_upload that joins the oldest worker still running instead of
\* the stored handle
wait_for_upload_join_oldest(t) ==
    /\ ws[t].st = "checked"
    /\ IF upload_thread = t \/ th[upload_thread].pc = "new"
       THEN WaitEnds(t, TRUE)
       ELSE /\ ws' = [ws EXCEPT ![t].st = "joining",
                                ![t].tgt = CHOOSE v \in Workers :
                                    /\ is_alive(v) \/ v = upload_thread
                                    /\ \A u \in Workers :
                                          (is_alive(u) \/ u = upload_thread)
                                              => v <= u]
            /\ UNCHANGED <<fs, upload_thread, nthreads, ncalls, mpc, th, dlast,
                           bucket, key>>

\* a join that blocks on the current thread instead of raising
wait_for_upload_join_self(t) ==
    /\ ws[t].st = "checked"
    /\ IF th[upload_thread].pc = "new"
       THEN WaitEnds(t, TRUE)
       ELSE /\ ws' = [ws EXCEPT ![t].st = "joining", ![t].tgt = upload_thread]
            /\ UNCHANGED <<fs, upload_thread, nthreads, ncalls, mpc, th, dlast,
                           bucket, key>>

\* wait_for_upload, line 78: self._upload_thread.join() reads the attribute
\* again; Thread.join raises RuntimeError on the current thread and on a
\* thread that has not been started
wait_for_upload_join(t) ==
    /\ ws[t].st = "checked"
    /\ IF upload_thread = t \/ th[upload_thread].pc = "new"
       THEN WaitEnds(t, TRUE)
       ELSE /\ ws' = [ws EXCEPT ![t].st = "joining", ![t].tgt = upload_thread]
            /\ UNCHANGED <<fs, upload_thread, nthreads, ncalls, mpc, th, dlast,
                           bucket, key>>

\* a join that returns without waiting for the joined thread
wait_for_upload_return_early(t) ==
    /\ ws[t].st = "joining"
    /\ WaitEnds(t, FALSE)

\* Thread.join() returns once the joined thread has finished
wait_for_upload_return(t) ==
    /\ ws[t].st = "joining"
    /\ Terminated(ws[t].tgt)
    /\ WaitEnds(t, FALSE)

----------------------------------------------------------------------------
\* an unlink that leaves the file in place
unlink_nothing(file_path) == fs

\* Path.unlink(): the filesystem without the file
unlink(file_path) == fs \ {file_path}

\* delete_file that swallows the error of unlink
delete_file_quiet(file_path) ==
    /\ MainIdle
    /\ IF exists(file_path)
       THEN \/ /\ fs' = unlink(file_path)
               /\ dlast' = "removed"
            \/ /\ fs' = fs
               /\ dlast' = "noop"
       ELSE /\ fs' = fs
            /\ dlast' = "noop"
    /\ UNCHANGED <<upload_thread, nthreads, ncalls, mpc, th, ws, bucket, key>>

\* delete_file, lines 82-84; unlink may fail (e.g. PermissionError), which
\* is not caught
delete_file(file_path) ==
    /\ MainIdle
    /\ IF exists(file_path)
       THEN \/ /\ fs' = unlink(file_path)
               /\ dlast' = "removed"
            \/ /\ fs' = fs
               /\ dlast' = "raised"
       ELSE /\ fs' = fs
            /\ dlast' = "noop"
    /\ UNCHANGED <<upload_thread, nthreads, ncalls, mpc, th, ws, bucket, key>>

----------------------------------------------------------------------------
Next ==
    \/ \E p \in Paths, c \in BOOLEAN : upload_file_assign(p, c)
    \/ upload_file_start
    \/ \E w \in Workers : worker_exists(w)
    \/ \E w \in Workers : worker_presign(w)
    \/ \E w \in Workers : worker_open(w)
    \/ \E w \in Workers : worker_put(w)
    \/ \E w \in Workers : callback_return(w)
    \/ \E w \in Workers : callback_raise(w)
    \/ \E t \in Threads : wait_for_upload_check(t)
    \/ \E t \in Threads : wait_for_upload_join(t)
    \/ \E t \in Threads : wait_for_upload_return(t)
    \/ \E p \in Paths : delete_file(p)

Spec == Init /\ [][Next]_vars

\* every started worker keeps being scheduled, its storage and transport
\* calls and its callback come back, and a thread inside wait_for_upload
\* goes on
FairSpec ==
    /\ Spec
    /\ \A w \in Workers :
          /\ WF_vars(worker_exists(w))
          /\ WF_vars(worker_presign(w))
          /\ WF_vars(worker_open(w))
          /\ WF_vars(worker_put(w))
          /\ WF_vars(callback_return(w))
    /\ \A t \in Threads :
          /\ WF_vars(wait_for_upload_join(t))
          /\ WF_vars(wait_for_upload_return(t))

----------------------------------------------------------------------------
\* C1: for every upload_file call with a callback, the worker invokes the
\* callback at most once at any time, and exactly once by the time the
\* worker has terminated, whether the callback returns or raises.
C1_ExactlyOnce ==
    \A w \in Workers :
        th[w].cb =>
            /\ Len(th[w].calls) <= 1
            /\ Terminated(w) => Len(th[w].calls) = 1

\* C2: a worker whose file existed when upload_file was called, whose
\* endpoint acquisition succeeded and whose PUT returned a success status
\* has, once terminated, invoked the callback exactly once, with True.
C2_SuccessOnce ==
    \A w \in Workers :
        ( /\ th[w].cb
          /\ th[w].existed
          /\ th[w].presign = "ok"
          /\ th[w].put = "ok"
          /\ Terminated(w) ) => th[w].calls = <<TRUE>>

\* C3: a worker whose file did not exist when upload_file was called never
\* acquires an endpoint, never opens the file and never PUTs, and once past
\* its existence check it has invoked the callback (if any) with False only.
C3_MissingFile ==
    \A w \in Workers :
        (th[w].pc # "none" /\ ~th[w].existed) =>
            /\ th[w].presign = "none" /\ th[w].open = "none"
            /\ th[w].put = "none"
            /\ th[w].pc \notin {"presign", "open", "put", "cbT"}
            /\ (th[w].cb /\ th[w].pc \notin {"new", "check"})
                   => th[w].calls = <<FALSE>>

C3_Witness ==
    \E w \in Workers :
        /\ ~th[w].existed /\ th[w].cb /\ th[w].pc = "done"
        /\ th[w].calls = <<FALSE>> /\ th[w].presign = "none"

\* C4: a worker whose endpoint acquisition failed has invoked the callback
\* (if any) with False only and never opens the file or PUTs; a worker is at
\* or past the PUT only if its own endpoint acquisition succeeded.
C4_PresignFailure ==
    \A w \in Workers :
        /\ th[w].presign = "fail" =>
              /\ th[w].open = "none" /\ th[w].put = "none"
              /\ th[w].pc \notin {"open", "put", "cbT"}
              /\ th[w].cb => th[w].calls = <<FALSE>>
        /\ (th[w].pc = "put" \/ th[w].put # "none") => th[w].presign = "ok"

C4_Witness ==
    \E w \in Workers :
        /\ th[w].presign = "fail" /\ th[w].cb /\ th[w].pc = "done"
        /\ th[w].calls = <<FALSE>> /\ th[w].put = "none"

\* C5: a worker whose PUT returned a non-success status, or whose transfer
\* raised, has invoked the callback (if any) with False and never with True.
C5_PutFailure ==
    \A w \in Workers :
        th[w].put \in {"bad_status", "raise"} =>
            /\ th[w].pc # "cbT"
            /\ th[w].cb => th[w].calls = <<FALSE>>

C5_Witness ==
    \E w \in Workers :
        /\ th[w].put = "bad_status" /\ th[w].cb /\ th[w].pc = "done"
        /\ th[w].calls = <<FALSE>>

\* C6: no exception leaves _upload_worker: no worker ends by an uncaught
\* exception, whatever step failed, the delivery of the notification
\* included.
C6_NoEscape ==
    \A w \in Workers : th[w].pc # "crashed"

\* C7: wait_for_upload goes on to join only when a worker is tracked and
\* still running (otherwise it returns without blocking), and a call that
\* blocked returns only after the worker that was the most recently started
\* one when the call was made has terminated.
C7_WaitForUpload ==
    [][\A t \in Threads :
          /\ (ws[t].st = "none" /\ ws'[t].st = "checked")
                 => (upload_thread # 0 /\ is_alive(upload_thread))
          /\ (ws[t].st = "joining" /\ ws'[t].st = "none")
                 => Terminated(ws[t].h)
      ]_vars

\* C7 as amended: wait_for_upload goes on to join only when a worker is
\* tracked and still running; a call that blocked returns only after the
\* worker stored in the handle when join was evaluated has terminated and
\* has invoked its callback (if any); for a call by the caller thread, during
\* which no upload_file call can run, that worker is the most recently
\* started one at the time of the call.
C7_WaitForUploadJoined ==
    [][\A t \in Threads :
          /\ (ws[t].st = "none" /\ ws'[t].st = "checked")
                 => (upload_thread # 0 /\ is_alive(upload_thread))
          /\ (ws[t].st = "joining" /\ ws'[t].st = "none") =>
                 /\ Terminated(ws[t].tgt)
                 /\ th[ws[t].tgt].cb => th[ws[t].tgt].calls # <<>>
                 /\ IsCaller(t) => Terminated(ws[t].h)
      ]_vars

\* the caller is blocked in join on the worker it found alive, which has
\* terminated after invoking its callback
C7_Witness ==
    /\ ws[0].st = "joining" /\ ws[0].tgt = ws[0].h
    /\ Terminated(ws[0].tgt)
    /\ th[ws[0].tgt].cb /\ th[ws[0].tgt].calls # <<>>

\* C8: upload_file never waits: while the caller is inside upload_file the
\* new thread has taken no step and the start of line 39 can be taken at
\* once, whatever the other workers are doing.
C8_NonBlocking ==
    mpc = "starting" =>
        /\ th[upload_thread].pc = "new"
        /\ ENABLED upload_file_start

\* two upload_file calls have returned and no worker has taken a step
C8_Witness ==
    /\ MainIdle /\ ncalls = 2
    /\ th[1].pc = "check" /\ th[2].pc = "check"

C10_DeleteFile ==
    [][\A p \in Paths :
          delete_file(p) =>
              IF exists(p)
              THEN dlast' # "raised" => p \notin fs'
              ELSE fs' = fs /\ dlast' = "noop"
      ]_vars

\* delete_file has removed a file that existed
C10_Witness ==
    dlast = "removed" /\ ~exists("a")

\* C11: a delete_file call whose removal fails leaves the file in place and
\* ends by raising to its caller (it never ends silently with the file still
\* there), whereas a failing upload step of a worker never ends the worker
\* by an exception and never touches the caller: it goes to the handler,
\* which delivers False to the callback if there is one.
C11_Asymmetry ==
    [][/\ \A p \in Paths :
            (delete_file(p) /\ exists(p) /\ p \in fs') =>
                (fs' = fs /\ dlast' = "raised")
       /\ \A w \in Workers :
            (th[w].pc \in {"check", "presign", "open", "put"}
               /\ th'[w] # th[w]) =>
                /\ th'[w].pc \in {"presign", "open", "put", "cbT", "cbF", "done"}
                /\ mpc' = mpc /\ dlast' = dlast /\ ws'[0] = ws[0]
                /\ (th'[w].pc = "cbF") => th'[w].calls = <<FALSE>>
      ]_vars

\* delete_file has raised and the file is still there
C11_Witness ==
    dlast = "raised" /\ exists("a")

\* C12: the uploader keeps one handle, that of the thread created by the
\* most recent upload_file call; a wait_for_upload of the caller tracks and
\* joins that thread alone, and can return as soon as it has terminated,
\* whatever the earlier workers are doing.
C12_SingleHandle ==
    /\ upload_thread = nthreads
    /\ ws[0].st \in {"checked", "joining"} => ws[0].h = upload_thread
    /\ ws[0].st = "joining" =>
          /\ ws[0].tgt = upload_thread
          /\ Terminated(ws[0].tgt) => ENABLED wait_for_upload_return(0)

\* the caller's join on the second worker can return while the first worker
\* is still running and has not delivered its notification
C12_Witness ==
    /\ ws[0].st = "joining" /\ ws[0].tgt = 2 /\ Terminated(2)
    /\ is_alive(1) /\ th[1].cb /\ th[1].calls = <<>>

\* C13: no step of any operation changes bucket or key, and every endpoint
\* request a worker has made is a put_object request for exactly the
\* constructed bucket and key, valid for 3600 seconds.
C13_FixedDestination ==
    [][/\ bucket' = bucket /\ key' = key
       /\ \A w \in Workers :
            th'[w].presign # "none" =>
                th'[w].req = <<"put_object",
                               [Bucket |-> bucket, Key |-> key], 3600>>
       /\ \A w \in Workers :
            th'[w].presign = "none" => th'[w].req = <<>>
      ]_vars

\* a worker has obtained its endpoint for the constructed destination
C13_Witness ==
    \E w \in Workers :
        /\ th[w].presign = "ok" /\ th[w].pc = "put"
        /\ th[w].req = <<"put_object", [Bucket |-> bucket, Key |-> key], 3600>>

\* C14: every True a worker delivers comes after its own PUT returned a
\* success status, and every False it delivers comes after one of its upload
\* steps failed; a worker whose PUT succeeded delivers no False.
C14_OutcomeReflected ==
    \A w \in Workers :
        \A i \in DOMAIN th[w].calls :
            th[w].calls[i] <=> th[w].put = "ok"

\* C15: when the file is removed after a worker's existence check passed and
\* before the worker opens it, the worker attempts no PUT, delivers exactly
\* one notification, False, and does not end by an uncaught exception; the
\* delete_file that removed the file ended without error (a later
\* delete_file finds no file and is a no-op).
C15_DeleteDuringUpload ==
    \A w \in Workers :
        th[w].open = "fail" =>
            /\ th[w].put = "none"
            /\ th[w].cb => th[w].calls = <<FALSE>>
            /\ th[w].pc # "crashed"
            /\ dlast \in {"removed", "noop"}

\* C16: no wait_for_upload call, from whichever thread, ends with an error.
C16_WaitReturnsNormally ==
    [][\A t \in Threads : ~(ws[t].st = "checked" /\ ws'[t].st = "none")]_vars

\* C16 as amended: every wait_for_upload call that went on to join
\* eventually ends (no thread stays inside wait_for_upload for ever), and it ends with an error only on a worker thread, inside
\* a callback, when at the join the handle is that worker itself or a thread
\* that has not been started; a call by the caller thread returns normally.
C16_WaitEnds ==
    /\ [][\A t \in Threads :
            (ws[t].st = "checked" /\ ws'[t].st = "none") =>
                /\ ~IsCaller(t)
                /\ th[t].pc \in {"cbT", "cbF"}
                /\ upload_thread = t \/ th[upload_thread].pc = "new"
         ]_vars
    /\ \A t \in Threads : []<>(ws[t].st = "none")

\* the caller is blocked in join on a worker that, inside its callback, has
\* entered wait_for_upload while it is the tracked worker itself
C16_Witness ==
    \E w \in Workers :
        /\ ws[0].st = "joining" /\ ws[0].tgt = w
        /\ ws[w].st = "checked" /\ upload_thread = w

====
